---- MODULE Spec2Model ----
(***************************************************************************)
(* The search / filter / pagination state machine of JobSearchPage         *)
(* (src/src/components/pages/JobSearchPage.tsx), with the props it is      *)
(* constructed from (getServerSideProps, src/unnamed/part_002).            *)
(*                                                                         *)
(* React state is modelled as committed state: every event handler, and    *)
(* every continuation of an async function after its await, runs to its    *)
(* end, React commits the batched updates and runs the effects whose       *)
(* dependencies changed, and only then is the next event handled.  The     *)
(* closures (loadMoreJobs, handleFilterSearch) therefore read the state of *)
(* the latest commit.                                                      *)
(*                                                                         *)
(* A page of jobs is kept as one chunk [f, p, n]: the n items that page p  *)
(* of the result for filter set f holds; jobs is the sequence of chunks,   *)
(* in display order.                                                       *)
(*                                                                         *)
(* The bookmark indicator of JobDetailPage (src/unnamed/part_000) is a     *)
(* second state machine, with a specification of its own.                  *)
(*                                                                         *)
(* getStaticProps of the two detail pages (src/pages/lowongan-kerja/       *)
(* [slug].tsx and src/pages/artikel/[slug].tsx) is a third one: a build    *)
(* of one page, stepping from await to await.                              *)
(***************************************************************************)
EXTENDS Integers, Sequences, FiniteSets, TLC

VARIABLES
  keyword,          \* useState, line 41
  selectedProvince, \* useState, line 42
  sidebarFilters,   \* useState, lines 45-53
  sortBy,           \* useState, line 56
  filtersRef,       \* useRef, lines 61-66: the last-applied snapshot
  filterData,       \* useState, line 35: "loaded" or NULL
  jobs,             \* useState, line 30
  currentPage,      \* useState, line 36
  hasMore,          \* useState, line 37
  totalJobs,        \* useState, line 38
  error,            \* useState, line 34: NULL or the message
  searching,        \* useState, line 32
  loadingMore,      \* useState, line 33
  url,              \* the query string router.replace last wrote
  inflight,         \* the getJobs calls awaiting their response, in issue order
  sentinelQueued,   \* an intersection of the sentinel is queued for the hook
  mounted,          \* the effects of the first render have run
  lastResponse,     \* lines 81 and 156: the request and the response (or the
                    \* rejection) the continuation run by the latest step
                    \* was resumed with; NoResponse after any other step
  paginationEnded,  \* history: hasMore has been false since the latest search
                    \* was started
  serverRendered,   \* history: jobs is still the initialJobs of the props
  bookmarks,        \* the bookmark store (local storage, shared by the tabs):
                    \* the job ids that are bookmarked
  isBookmarked,     \* JobDetailPage useState (part_000 line 325)
  pendingEvents,    \* the events queued for the window of the detail view
  detailMounted,    \* the effects of JobDetailPage have run
  published,        \* the slugs WordPress has a job and an article for
  staticPage,       \* the detail page being built: "job" or "article"
  params,           \* the params getStaticProps is called with
  staticPc,         \* where the build is: "idle", "lookup", "related", "done"
  found,            \* what the lookup by slug returned, NoItem before it
  thrown,           \* history: the call of the build that threw, or "none"
  staticResult      \* what getStaticProps returned, NoResult before it

pageVars == <<keyword, selectedProvince, sidebarFilters, sortBy, filtersRef,
              filterData, jobs, currentPage, hasMore, totalJobs, error,
              searching, loadingMore, url, inflight, sentinelQueued, mounted,
              lastResponse>>

bookmarkVars == <<bookmarks, isBookmarked, pendingEvents, detailMounted>>

historyVars == <<paginationEnded, serverRendered>>

staticVars == <<published, staticPage, params, staticPc, found, thrown,
                staticResult>>

vars == <<pageVars, historyVars, bookmarkVars, staticVars>>

filterVars == <<keyword, selectedProvince, sidebarFilters, sortBy>>
resultVars == <<jobs, currentPage, hasMore, totalJobs, error>>

----------------------------------------------------------------------------
(* Values *)

NULL == "null"

PageSize == 24

\* The largest number of jobs the API holds for a filter set.
MaxTotal == 50

ErrorMessage == "Gagal memuat data pekerjaan. Silakan coba lagi."

Keywords == {"", "backend"}
Provinces == {"", "DKI Jakarta"}
SortOrders == {"newest", "oldest"}
CityNames == {"A", "B"}
CategoryNames == {"IT"}
JobTypeNames == {"Full Time"}

\* What the API may hold for a filter set when a request is answered:
\* nothing, less than a page, the bound.
Totals == {0, 5, MaxTotal}

FacetNames == {"cities", "jobTypes", "experiences", "educations",
               "industries", "workPolicies", "categories"}

\* The arrays over S without repetition, of length at most 2.
Arrays(S) == {<<>>} \cup {<<a>> : a \in S}
               \cup {<<a, b>> : <<a, b>> \in {p \in S \X S : p[1] # p[2]}}

EmptySidebar ==
  [cities |-> <<>>, jobTypes |-> <<>>, experiences |-> <<>>,
   educations |-> <<>>, industries |-> <<>>, workPolicies |-> <<>>,
   categories |-> <<>>]

\* The values JobSidebar hands to onFiltersChange.
SidebarValues ==
  {[EmptySidebar EXCEPT !.cities = c, !.categories = g, !.jobTypes = j] :
     c \in Arrays(CityNames), g \in Arrays(CategoryNames),
     j \in Arrays(JobTypeNames)}

Min(a, b) == IF a < b THEN a ELSE b
Max(a, b) == IF a > b THEN a ELSE b

----------------------------------------------------------------------------
(* The content API client: getJobs(filters, page, 24) *)

\* The number of items of page p when the API holds total items.
PageCount(p, total) == Max(0, Min(PageSize, total - PageSize * (p - 1)))

\* The response of getJobs(f, p, 24) when the API holds total items for f.
GetJobsResponse(f, p, total) ==
  [jobs        |-> IF PageCount(p, total) > 0
                   THEN <<[f |-> f, p |-> p, n |-> PageCount(p, total)]>>
                   ELSE <<>>,
   currentPage |-> p,
   hasMore     |-> p * PageSize < total,
   totalJobs   |-> total]

\* The number of jobs in a sequence of chunks.
RECURSIVE Length(_)
Length(js) == IF js = <<>> THEN 0 ELSE Head(js).n + Length(Tail(js))

----------------------------------------------------------------------------
(* The filter set *)

CurrentFilters ==
  [keyword |-> keyword, selectedProvince |-> selectedProvince,
   sidebarFilters |-> sidebarFilters, sortBy |-> sortBy]

\* JSON.stringify of a sidebarFilters object: the facets in key order, each
\* array in element order.
Stringify(sf) ==
  <<sf.cities, sf.jobTypes, sf.experiences, sf.educations, sf.industries,
    sf.workPolicies, sf.categories>>

filtersChanged(cur, ref) ==
  \/ cur.keyword # ref.keyword
  \/ cur.selectedProvince # ref.selectedProvince
  \/ cur.sortBy # ref.sortBy
  \/ Stringify(cur.sidebarFilters) # Stringify(ref.sidebarFilters)

\* The parameters without location.
UrlParams_DropsLocation(k, p) == [search |-> k, location |-> "", category |-> ""]

\* new URLSearchParams() with search / location set when non-empty.
\* A parameter that is not set is "".
UrlParams(k, p) == [search |-> k, location |-> p, category |-> ""]

\* The words of a value, split at its spaces.
Words(s) == IF s = "DKI Jakarta" THEN <<"DKI", "Jakarta">> ELSE <<s>>

RECURSIVE Join(_, _)
Join(parts, sep) ==
  IF parts = <<>> THEN ""
  ELSE IF Len(parts) = 1 THEN Head(parts)
  ELSE Head(parts) \o sep \o Join(Tail(parts), sep)

\* application/x-www-form-urlencoded: a space is written "+".
FormEncode(s) == Join(Words(s), "+")

\* URLSearchParams.toString(): name=value for the parameters that are set,
\* joined by "&".
QueryString(u) ==
  Join((IF u.search # "" THEN <<"search=" \o FormEncode(u.search)>> ELSE <<>>)
       \o (IF u.location # "" THEN <<"location=" \o FormEncode(u.location)>>
           ELSE <<>>)
       \o (IF u.category # "" THEN <<"category=" \o FormEncode(u.category)>>
           ELSE <<>>),
       "&")

----------------------------------------------------------------------------
(* Construction *)

\* What a rejected getJobs leaves in response: nothing.
NoJobs == [jobs |-> <<>>, currentPage |-> 0, hasMore |-> FALSE, totalJobs |-> 0]

NoResponse == [kind |-> "none", ok |-> FALSE, rsp |-> NoJobs]

\* part_002 lines 85-97: the filters getServerSideProps hands to getJobs for
\* the query q.  The facets it leaves out are empty here.
ServerFilters(q) ==
  [keyword |-> q.search, selectedProvince |-> q.location,
   sidebarFilters |->
     [EmptySidebar EXCEPT
        !.categories = IF q.category # "" THEN <<q.category>> ELSE <<>>],
   sortBy |-> "newest"]

\* The catch branch returning the parameters of the query.
getServerSideProps_KeepsQuery(q, total, failed) ==
  LET jobsResponse == GetJobsResponse(ServerFilters(q), 1, total)
  IN IF failed
     THEN [initialJobs |-> <<>>, filterData |-> NULL, searchParams |-> q,
           totalJobs |-> 0]
     ELSE [initialJobs |-> jobsResponse.jobs, filterData |-> "loaded",
           searchParams |-> q, totalJobs |-> jobsResponse.totalJobs]

\* part_002 lines 74-127: the props for the query q when the API holds total
\* jobs; failed: one of the fetches of line 100 rejects.  A parameter that
\* searchParams lacks is "".
getServerSideProps(q, total, failed) ==
  LET jobsResponse == GetJobsResponse(ServerFilters(q), 1, total)
  IN IF failed
     THEN [initialJobs |-> <<>>, filterData |-> NULL,
           searchParams |-> [search |-> "", location |-> "", category |-> ""],
           totalJobs |-> 0]
     ELSE [initialJobs |-> jobsResponse.jobs, filterData |-> "loaded",
           searchParams |-> q, totalJobs |-> jobsResponse.totalJobs]

\* useState / useRef initial values for the props getServerSideProps returns
\* for the query (search s, location l, category c) when the API holds total
\* jobs, and for the props of its catch branch.
InitFor(s, l, c, total, failed) ==
  LET props == getServerSideProps(
                 [search |-> s, location |-> l, category |-> c], total, failed)
      sp  == props.searchParams
      sf  == [EmptySidebar EXCEPT
                !.categories = IF sp.category # "" THEN <<sp.category>> ELSE <<>>]
  IN /\ keyword = sp.search
     /\ selectedProvince = sp.location
     /\ sidebarFilters = sf
     /\ sortBy = "newest"
     /\ filtersRef = [keyword |-> "", selectedProvince |-> "",
                      sidebarFilters |-> sf, sortBy |-> "newest"]
     /\ filterData = props.filterData
     /\ jobs = props.initialJobs
     /\ totalJobs = props.totalJobs
     /\ currentPage = 1
     /\ hasMore = TRUE
     /\ error = NULL
     /\ searching = FALSE
     /\ loadingMore = FALSE
     /\ url = [search |-> s, location |-> l, category |-> c]
     /\ inflight = <<>>
     /\ sentinelQueued = FALSE
     /\ mounted = FALSE
     /\ lastResponse = NoResponse

\* JobDetailPage is not open: line 325 of part_000 has not run its effects,
\* and nothing is bookmarked.
NoDetailPage ==
  /\ bookmarks = {}
  /\ isBookmarked = FALSE
  /\ pendingEvents = <<>>
  /\ detailMounted = FALSE

\* null or undefined for a job or an article, and for a return value
NoItem == [type |-> "null", slug |-> ""]
NoResult == [kind |-> "none"]

\* No detail page is being built.
NoStaticBuild ==
  /\ staticPage = "job"
  /\ params = [slug |-> NULL]
  /\ staticPc = "idle"
  /\ found = NoItem
  /\ thrown = "none"
  /\ staticResult = NoResult

Init ==
  /\ \E s \in Keywords, l \in Provinces, total \in Totals, failed \in BOOLEAN :
       InitFor(s, l, "", total, failed)
  /\ paginationEnded = FALSE
  /\ serverRendered = TRUE
  /\ NoDetailPage
  /\ published = {}
  /\ NoStaticBuild

----------------------------------------------------------------------------
(* handleFilterSearch and the filter-change effect *)

\* What a request remembers of the page it was issued from: the number of
\* jobs displayed, totalJobs and error (currentPage is page - 1).
NoSnap == [n |-> 0, totalJobs |-> 0, error |-> NULL]

SearchRequest(k, p, sf, s) ==
  [kind |-> "search",
   filters |-> [keyword |-> k, selectedProvince |-> p,
                sidebarFilters |-> sf, sortBy |-> s],
   page |-> 1, size |-> PageSize, snap |-> NoSnap]

\* handleFilterSearch without its guard.
searchGuard_Off == TRUE

\* line 134: if (searching) return
searchGuard == ~searching

\* handleFilterSearch without setError(null).
handleFilterSearch_KeepsError(k, p, sf, s, u) ==
  IF searchGuard
  THEN /\ searching' = TRUE
       /\ jobs' = <<>>
       /\ currentPage' = 1
       /\ hasMore' = TRUE
       /\ url' = UrlParams(k, p)
       /\ inflight' = Append(inflight, SearchRequest(k, p, sf, s))
       /\ UNCHANGED <<totalJobs, loadingMore, error>>
  ELSE /\ url' = u
       /\ UNCHANGED <<jobs, currentPage, hasMore, totalJobs, error, searching,
                      loadingMore, inflight>>

\* handleFilterSearch up to its await, called from a render whose filter
\* state is (k, p, sf, s); u is the URL when it is called.
handleFilterSearch(k, p, sf, s, u) ==
  IF searchGuard
  THEN /\ searching' = TRUE
       /\ jobs' = <<>>
       /\ currentPage' = 1
       /\ hasMore' = TRUE
       /\ error' = NULL
       /\ url' = UrlParams(k, p)
       /\ inflight' = Append(inflight, SearchRequest(k, p, sf, s))
       /\ UNCHANGED <<totalJobs, loadingMore>>
  ELSE /\ url' = u
       /\ UNCHANGED <<jobs, currentPage, hasMore, totalJobs, error, searching,
                      loadingMore, inflight>>

\* The effect without the filterData condition of line 127.
FilterEffect_IgnoresFilterData(k, p, sf, s, u) ==
  LET currentFilters == [keyword |-> k, selectedProvince |-> p,
                         sidebarFilters |-> sf, sortBy |-> s]
  IN IF filtersChanged(currentFilters, filtersRef)
     THEN /\ filtersRef' = currentFilters
          /\ handleFilterSearch(k, p, sf, s, u)
     ELSE /\ url' = u
          /\ UNCHANGED <<filtersRef, jobs, currentPage, hasMore, totalJobs,
                         error, searching, loadingMore, inflight>>

\* The effect of lines 112-131, run in the render whose filter state is
\* (k, p, sf, s).
FilterEffect(k, p, sf, s, u) ==
  LET currentFilters == [keyword |-> k, selectedProvince |-> p,
                         sidebarFilters |-> sf, sortBy |-> s]
  IN IF filtersChanged(currentFilters, filtersRef) /\ filterData # NULL
     THEN /\ filtersRef' = currentFilters
          /\ handleFilterSearch(k, p, sf, s, u)
     ELSE /\ url' = u
          /\ UNCHANGED <<filtersRef, jobs, currentPage, hasMore, totalJobs,
                         error, searching, loadingMore, inflight>>

\* The setters of an event handler leave the filter state (k, p, sf, s); React
\* renders and runs the effect.
ApplyFilters(k, p, sf, s, u) ==
  /\ mounted
  /\ keyword' = k
  /\ selectedProvince' = p
  /\ sidebarFilters' = sf
  /\ sortBy' = s
  /\ FilterEffect(k, p, sf, s, u)
  /\ lastResponse' = NoResponse
  /\ UNCHANGED <<filterData, sentinelQueued, mounted>>

\* The first render's effects.
Mount ==
  /\ ~mounted
  /\ mounted' = TRUE
  /\ lastResponse' = NoResponse
  /\ FilterEffect(keyword, selectedProvince, sidebarFilters, sortBy, url)
  /\ UNCHANGED <<filterVars, filterData, sentinelQueued>>

----------------------------------------------------------------------------
(* The filter controls *)

\* line 262: the keyword input's onChange
SetKeyword(k) ==
  ApplyFilters(k, selectedProvince, sidebarFilters, sortBy, url)

\* line 273: SearchableSelect onChange={setSelectedProvince}
SetProvince(p) ==
  ApplyFilters(keyword, p, sidebarFilters, sortBy, url)

handleSidebarFilterChange(newFilters) ==
  ApplyFilters(keyword, selectedProvince, newFilters, sortBy, url)

handleSortChange(newSortBy) ==
  ApplyFilters(keyword, selectedProvince, sidebarFilters, newSortBy, url)

\* clearAllFilters without setSortBy('newest').
clearAllFilters_KeepsSort ==
  ApplyFilters("", "", EmptySidebar, sortBy, UrlParams("", ""))

clearAllFilters ==
  ApplyFilters("", "", EmptySidebar, "newest", UrlParams("", ""))

\* Array.prototype.filter(item => item !== value)
RECURSIVE Without(_, _)
Without(arr, value) ==
  IF arr = <<>> THEN <<>>
  ELSE IF Head(arr) = value THEN Without(Tail(arr), value)
       ELSE <<Head(arr)>> \o Without(Tail(arr), value)

Elems(arr) == {arr[i] : i \in 1..Len(arr)}

\* removeFilter resetting the sort order along with a facet value.
removeFilter_ResetsSort(filterType, value) ==
  IF filterType = "keyword"
  THEN ApplyFilters("", selectedProvince, sidebarFilters, sortBy, url)
  ELSE IF filterType = "province"
  THEN ApplyFilters(keyword, "", [sidebarFilters EXCEPT !.cities = <<>>],
                    sortBy, url)
  ELSE IF value # ""
  THEN ApplyFilters(keyword, selectedProvince,
                    [sidebarFilters EXCEPT
                       ![filterType] = Without(sidebarFilters[filterType], value)],
                    "newest", url)
  ELSE ApplyFilters(keyword, selectedProvince, sidebarFilters, sortBy, url)

\* removeFilter(filterType, value), from the chips of lines 314-351; value
\* is "" where the chip passes none.
removeFilter(filterType, value) ==
  IF filterType = "keyword"
  THEN ApplyFilters("", selectedProvince, sidebarFilters, sortBy, url)
  ELSE IF filterType = "province"
  THEN ApplyFilters(keyword, "", [sidebarFilters EXCEPT !.cities = <<>>],
                    sortBy, url)
  ELSE IF value # ""
  THEN ApplyFilters(keyword, selectedProvince,
                    [sidebarFilters EXCEPT
                       ![filterType] = Without(sidebarFilters[filterType], value)],
                    sortBy, url)
  ELSE ApplyFilters(keyword, selectedProvince, sidebarFilters, sortBy, url)

RemoveKeywordChip == keyword # "" /\ removeFilter("keyword", "")

RemoveProvinceChip == selectedProvince # "" /\ removeFilter("province", "")

RemoveFacetChip ==
  \E ft \in FacetNames : \E v \in Elems(sidebarFilters[ft]) :
    removeFilter(ft, v)

\* handleMainSearch: the search button, and Enter in the keyword input
handleMainSearch ==
  /\ mounted
  /\ handleFilterSearch(keyword, selectedProvince, sidebarFilters, sortBy, url)
  /\ lastResponse' = NoResponse
  /\ UNCHANGED <<filterVars, filtersRef, filterData, sentinelQueued, mounted>>

----------------------------------------------------------------------------
(* Infinite scroll: the sentinel and loadMoreJobs *)

\* lines 413-454: the sentinel is in the page
SentinelRendered == ~searching /\ Len(jobs) > 0 /\ hasMore

\* The sentinel nears the viewport: the observer queues an intersection.
Intersect ==
  /\ mounted
  /\ SentinelRendered
  /\ ~sentinelQueued
  /\ sentinelQueued' = TRUE
  /\ lastResponse' = NoResponse
  /\ UNCHANGED <<filterVars, filtersRef, filterData, resultVars, searching,
                 loadingMore, url, inflight, mounted>>

LoadMoreRequest ==
  [kind |-> "loadMore", filters |-> CurrentFilters, page |-> currentPage + 1,
   size |-> PageSize,
   snap |-> [n |-> Length(jobs), totalJobs |-> totalJobs, error |-> error]]

\* The guard without its loadingMore test.
loadMoreGuard_NoLoadingMore == ~(~hasMore \/ searching)

\* The guard without its searching test.
loadMoreGuard_NoSearching == ~(loadingMore \/ ~hasMore)

\* line 70: if (loadingMore || !hasMore || searching) return
loadMoreGuard == ~(loadingMore \/ ~hasMore \/ searching)

\* loadMoreJobs up to its await
loadMoreJobs ==
  IF loadMoreGuard
  THEN /\ loadingMore' = TRUE
       /\ inflight' = Append(inflight, LoadMoreRequest)
  ELSE UNCHANGED <<loadingMore, inflight>>

\* The queued intersection reaches the hook, which calls its callback.
Trigger ==
  /\ mounted
  /\ sentinelQueued
  /\ sentinelQueued' = FALSE
  /\ loadMoreJobs
  /\ lastResponse' = NoResponse
  /\ UNCHANGED <<filterVars, filtersRef, filterData, resultVars, searching,
                 url, mounted>>

----------------------------------------------------------------------------
(* What the page renders *)

\* lines 402-410: {error && ...}
ErrorBannerShown == error # NULL

\* lines 413, 429 and 465-478: neither searching nor any job to show; the
\* "Tidak ada lowongan ditemukan" block with its Reset Filter button
NoResultsShown == ~searching /\ Len(jobs) = 0

----------------------------------------------------------------------------
(* The responses of getJobs *)

Remove(seq, i) == SubSeq(seq, 1, i - 1) \o SubSeq(seq, i + 1, Len(seq))

\* The continuation without setHasMore(response.hasMore).
SearchApply_KeepsHasMore(response) ==
  /\ jobs' = response.jobs
  /\ currentPage' = response.currentPage
  /\ totalJobs' = response.totalJobs
  /\ searching' = FALSE
  /\ UNCHANGED <<hasMore, error>>

\* lines 157-160 and 164: what handleFilterSearch does with the response
SearchApply(response) ==
  /\ jobs' = response.jobs
  /\ currentPage' = response.currentPage
  /\ hasMore' = response.hasMore
  /\ totalJobs' = response.totalJobs
  /\ searching' = FALSE
  /\ UNCHANGED error

\* The catch without the finally.
SearchCatch_StaysSearching ==
  /\ error' = ErrorMessage
  /\ UNCHANGED <<jobs, currentPage, hasMore, totalJobs, searching>>

\* lines 161-165: the catch and finally of handleFilterSearch
SearchCatch ==
  /\ error' = ErrorMessage
  /\ searching' = FALSE
  /\ UNCHANGED <<jobs, currentPage, hasMore, totalJobs>>

\* The continuation putting the response's jobs before the displayed ones.
LoadMoreApply_Prepends(response) ==
  /\ IF Len(response.jobs) > 0
     THEN /\ jobs' = response.jobs \o jobs
          /\ currentPage' = response.currentPage
          /\ hasMore' = response.hasMore
     ELSE /\ hasMore' = FALSE
          /\ UNCHANGED <<jobs, currentPage>>
  /\ loadingMore' = FALSE
  /\ UNCHANGED <<totalJobs, error>>

\* The continuation also taking the total of the response.
LoadMoreApply_SetsTotal(response) ==
  /\ IF Len(response.jobs) > 0
     THEN /\ jobs' = jobs \o response.jobs
          /\ currentPage' = response.currentPage
          /\ hasMore' = response.hasMore
     ELSE /\ hasMore' = FALSE
          /\ UNCHANGED <<jobs, currentPage>>
  /\ loadingMore' = FALSE
  /\ totalJobs' = response.totalJobs
  /\ UNCHANGED error

\* lines 83-89 and 94: what loadMoreJobs does with the response
LoadMoreApply(response) ==
  /\ IF Len(response.jobs) > 0
     THEN /\ jobs' = jobs \o response.jobs
          /\ currentPage' = response.currentPage
          /\ hasMore' = response.hasMore
     ELSE /\ hasMore' = FALSE
          /\ UNCHANGED <<jobs, currentPage>>
  /\ loadingMore' = FALSE
  /\ UNCHANGED <<totalJobs, error>>

\* The catch with the error banner of a failed search.
LoadMoreCatch_ShowsError ==
  /\ hasMore' = FALSE
  /\ loadingMore' = FALSE
  /\ error' = ErrorMessage
  /\ UNCHANGED <<jobs, currentPage, totalJobs>>

\* lines 90-95: the catch and finally of loadMoreJobs
LoadMoreCatch ==
  /\ hasMore' = FALSE
  /\ loadingMore' = FALSE
  /\ UNCHANGED <<jobs, currentPage, totalJobs, error>>

Fulfilled(request, response) ==
  [kind |-> request.kind, ok |-> TRUE, rsp |-> response]

Rejected(request) == [kind |-> request.kind, ok |-> FALSE, rsp |-> NoJobs]

SearchResolveWith(totals) ==
  \E i \in 1..Len(inflight), total \in totals :
    LET response == GetJobsResponse(inflight[i].filters, inflight[i].page, total)
    IN /\ inflight[i].kind = "search"
       /\ SearchApply(response)
       /\ inflight' = Remove(inflight, i)
       /\ lastResponse' = Fulfilled(inflight[i], response)
       /\ UNCHANGED <<filterVars, filtersRef, filterData, loadingMore, url,
                      sentinelQueued, mounted>>

SearchResolve == SearchResolveWith(Totals)

\* The catch issuing the failed request again.
SearchReject_Retries ==
  \E i \in 1..Len(inflight) :
    /\ inflight[i].kind = "search"
    /\ error' = ErrorMessage
    /\ inflight' = Append(Remove(inflight, i), inflight[i])
    /\ lastResponse' = Rejected(inflight[i])
    /\ UNCHANGED <<filterVars, filtersRef, filterData, jobs, currentPage,
                   hasMore, totalJobs, searching, loadingMore, url,
                   sentinelQueued, mounted>>

SearchReject ==
  \E i \in 1..Len(inflight) :
    /\ inflight[i].kind = "search"
    /\ SearchCatch
    /\ inflight' = Remove(inflight, i)
    /\ lastResponse' = Rejected(inflight[i])
    /\ UNCHANGED <<filterVars, filtersRef, filterData, loadingMore, url,
                   sentinelQueued, mounted>>

LoadMoreResolve ==
  \E i \in 1..Len(inflight), total \in Totals :
    LET response == GetJobsResponse(inflight[i].filters, inflight[i].page, total)
    IN /\ inflight[i].kind = "loadMore"
       /\ LoadMoreApply(response)
       /\ inflight' = Remove(inflight, i)
       /\ lastResponse' = Fulfilled(inflight[i], response)
       /\ UNCHANGED <<filterVars, filtersRef, filterData, searching, url,
                      sentinelQueued, mounted>>

LoadMoreReject ==
  \E i \in 1..Len(inflight) :
    /\ inflight[i].kind = "loadMore"
    /\ LoadMoreCatch
    /\ inflight' = Remove(inflight, i)
    /\ lastResponse' = Rejected(inflight[i])
    /\ UNCHANGED <<filterVars, filtersRef, filterData, searching, url,
                   sentinelQueued, mounted>>

----------------------------------------------------------------------------
(* The specification *)

\* This step passed the guard of handleFilterSearch (line 134).
SearchStarted ==
  /\ Len(inflight') > Len(inflight)
  /\ inflight'[Len(inflight')].kind = "search"

\* What every step of JobSearchPage does besides its action: the history of
\* hasMore (lines 37, 86, 88, 91, 139, 159) and of jobs (lines 30, 84, 137,
\* 157) is kept, and JobDetailPage, which is not open, stays as it is.
PageStep ==
  /\ paginationEnded' = IF SearchStarted THEN FALSE
                        ELSE IF ~hasMore' THEN TRUE
                        ELSE paginationEnded
  /\ serverRendered' = (serverRendered /\ ~SearchStarted /\ jobs' = jobs)
  /\ UNCHANGED <<bookmarkVars, staticVars>>

\* The page with the keyword and province controls, the search button and
\* infinite scroll.
Next ==
  \/ Mount /\ PageStep
  \/ (\E k \in Keywords : SetKeyword(k)) /\ PageStep
  \/ (\E p \in Provinces : SetProvince(p)) /\ PageStep
  \/ clearAllFilters /\ PageStep
  \/ RemoveKeywordChip /\ PageStep
  \/ RemoveProvinceChip /\ PageStep
  \/ handleMainSearch /\ PageStep
  \/ Intersect /\ PageStep
  \/ Trigger /\ PageStep
  \/ SearchResolve /\ PageStep
  \/ SearchReject /\ PageStep
  \/ LoadMoreResolve /\ PageStep
  \/ LoadMoreReject /\ PageStep

Spec == Init /\ [][Next]_vars

\* The page when no filter control is touched: the search button and
\* infinite scroll, for the filter set the page was opened with.
NextPaging ==
  \/ Mount /\ PageStep
  \/ handleMainSearch /\ PageStep
  \/ Intersect /\ PageStep
  \/ Trigger /\ PageStep
  \/ SearchResolve /\ PageStep
  \/ SearchReject /\ PageStep
  \/ LoadMoreResolve /\ PageStep
  \/ LoadMoreReject /\ PageStep

SpecPaging == Init /\ [][NextPaging]_vars

\* The page with every filter control, opened with any of the query
\* parameters, where every search finds nothing or fails.
InitFilters ==
  /\ \E s \in Keywords, l \in Provinces, c \in CategoryNames \cup {""},
        failed \in BOOLEAN :
       InitFor(s, l, c, 0, failed)
  /\ paginationEnded = FALSE
  /\ serverRendered = TRUE
  /\ NoDetailPage
  /\ published = {}
  /\ NoStaticBuild

NextFilters ==
  \/ Mount /\ PageStep
  \/ (\E k \in Keywords : SetKeyword(k)) /\ PageStep
  \/ (\E p \in Provinces : SetProvince(p)) /\ PageStep
  \/ (\E sf \in SidebarValues : handleSidebarFilterChange(sf)) /\ PageStep
  \/ (\E s \in SortOrders : handleSortChange(s)) /\ PageStep
  \/ clearAllFilters /\ PageStep
  \/ RemoveKeywordChip /\ PageStep
  \/ RemoveProvinceChip /\ PageStep
  \/ RemoveFacetChip /\ PageStep
  \/ handleMainSearch /\ PageStep
  \/ SearchResolveWith({0}) /\ PageStep
  \/ SearchReject /\ PageStep

SpecFilters == InitFilters /\ [][NextFilters]_vars

----------------------------------------------------------------------------
(* JobDetailPage: the bookmark indicator (src/unnamed/part_000) *)

\* The most events that wait for the window of the detail view.
MaxPending == 3

\* job.id of the page, and the ids of the jobs that can be bookmarked.
job == "job-1"
JobIds == {"job-1", "job-2"}

\* The local storage key of the bookmark store, and another key.
StorageKey == "nexjob_bookmarks"
OtherKey == "nexjob_settings"

BookmarkUpdated == [type |-> "bookmarkUpdated", key |-> ""]
StorageEvent(key) == [type |-> "storage", key |-> key]

\* bookmarkService.isBookmarked(id)
IsBookmarkedInStore(id) == id \in bookmarks

\* bookmarkService.toggleBookmark(id): the store after the toggle
Toggled(id) ==
  IF id \in bookmarks THEN bookmarks \ {id} ELSE bookmarks \cup {id}

\* JobSearchPage is not open: its state stays what construction leaves.
NoSearchPage ==
  /\ InitFor("", "", "", 0, TRUE)
  /\ paginationEnded = FALSE
  /\ serverRendered = TRUE

InitBookmark ==
  /\ NoSearchPage
  /\ NoDetailPage
  /\ published = {}
  /\ NoStaticBuild

DetailStep == UNCHANGED <<pageVars, historyVars, staticVars>>

\* lines 327-330 and 333-354: the effects of the first render read the
\* store and register the listeners.
DetailMount ==
  /\ ~detailMounted
  /\ detailMounted' = TRUE
  /\ isBookmarked' = IsBookmarkedInStore(job)
  /\ UNCHANGED <<bookmarks, pendingEvents>>
  /\ DetailStep

\* lines 356-360; the store broadcasts its change to the window.
handleBookmarkToggle ==
  /\ detailMounted
  /\ Len(pendingEvents) < MaxPending
  /\ bookmarks' = Toggled(job)
  /\ isBookmarked' = (job \in Toggled(job))
  /\ pendingEvents' = Append(pendingEvents, BookmarkUpdated)
  /\ UNCHANGED detailMounted
  /\ DetailStep

\* Another view of this tab (a job card) toggles the bookmark of job id.
ToggleInOtherView(id) ==
  /\ Len(pendingEvents) < MaxPending
  /\ bookmarks' = Toggled(id)
  /\ pendingEvents' = Append(pendingEvents, BookmarkUpdated)
  /\ UNCHANGED <<isBookmarked, detailMounted>>
  /\ DetailStep

\* Another tab toggles the bookmark of job id: this window is sent a
\* storage event for the store's key.
ToggleInOtherTab(id) ==
  /\ Len(pendingEvents) < MaxPending
  /\ bookmarks' = Toggled(id)
  /\ pendingEvents' = Append(pendingEvents, StorageEvent(StorageKey))
  /\ UNCHANGED <<isBookmarked, detailMounted>>
  /\ DetailStep

\* Another tab writes another key of local storage.
OtherStorageWrite ==
  /\ Len(pendingEvents) < MaxPending
  /\ pendingEvents' = Append(pendingEvents, StorageEvent(OtherKey))
  /\ UNCHANGED <<bookmarks, isBookmarked, detailMounted>>
  /\ DetailStep

\* lines 336-338
handleBookmarkUpdate == isBookmarked' = IsBookmarkedInStore(job)

\* The storage listener without a reaction.
handleStorageChange_Ignored(key) == UNCHANGED isBookmarked

\* lines 340-344
handleStorageChange(key) ==
  IF key = StorageKey
  THEN isBookmarked' = IsBookmarkedInStore(job)
  ELSE UNCHANGED isBookmarked

\* The window dispatches its oldest pending event to the listeners that
\* are registered (lines 347-348).
DispatchEvent ==
  /\ pendingEvents # <<>>
  /\ pendingEvents' = Tail(pendingEvents)
  /\ IF ~detailMounted THEN UNCHANGED isBookmarked
     ELSE IF Head(pendingEvents).type = "bookmarkUpdated"
     THEN handleBookmarkUpdate
     ELSE handleStorageChange(Head(pendingEvents).key)
  /\ UNCHANGED <<bookmarks, detailMounted>>
  /\ DetailStep

NextBookmark ==
  \/ DetailMount
  \/ handleBookmarkToggle
  \/ \E id \in JobIds : ToggleInOtherView(id)
  \/ \E id \in JobIds : ToggleInOtherTab(id)
  \/ OtherStorageWrite
  \/ DispatchEvent

SpecBookmark == InitBookmark /\ [][NextBookmark]_vars

-----------------------------------------------------------------------------
(* getStaticProps of the job and the article detail pages *)

DetailPages == {"job", "article"}

\* params?.slug: undefined (NULL), empty, or the slug of the path
Slugs == {NULL, "", "backend-dev", "tips-cv", "qa-engineer"}

\* The limit of the related-items fetch: line 84 of lowongan-kerja/[slug].tsx
\* and line 97 of artikel/[slug].tsx.
RelatedJobsLimit == 4
RelatedArticlesLimit == 3

RelatedLimit(page) ==
  IF page = "job" THEN RelatedJobsLimit ELSE RelatedArticlesLimit

\* revalidate: 3600 (line 91, and line 104 of the article page)
Revalidate == 3600

\* getJobBySlug / getArticleBySlug: the item with that slug, or null.
GetBySlug(page, slug) ==
  IF slug \in published THEN [type |-> page, slug |-> slug] ELSE NoItem

NotFound == [kind |-> "notFound"]

\* lines 86-92 (99-105): the props; the related items are kept as their
\* number.
Props(item, related) ==
  [kind |-> "props", props |-> [item |-> item, related |-> related],
   revalidate |-> Revalidate]

\* The build ends returning r.
Return(r) ==
  /\ staticPc' = "done"
  /\ staticResult' = r

\* lines 93-96 (106-109): the catch
Catch(call) ==
  /\ thrown' = call
  /\ Return(NotFound)

BuildStep == UNCHANGED <<pageVars, historyVars, bookmarkVars, published>>

\* lines 62-77 (75-90): Next.js calls getStaticProps, which runs to its first
\* await unless the slug is missing or the settings cannot be read.
Request(page, slug) ==
  /\ staticPc \in {"idle", "done"}
  /\ staticPage' = page
  /\ params' = [slug |-> slug]
  /\ found' = NoItem
  /\ IF slug \in {NULL, ""}
     THEN /\ thrown' = "none"
          /\ Return(NotFound)
     ELSE \/ Catch("settings")
          \/ /\ thrown' = "none"
             /\ staticPc' = "lookup"
             /\ staticResult' = NoResult
  /\ BuildStep

\* lines 77-84 (90-97): the lookup by slug returns.
LookupResolve ==
  /\ staticPc = "lookup"
  /\ found' = GetBySlug(staticPage, params.slug)
  /\ IF found' = NoItem
     THEN Return(NotFound)
     ELSE /\ staticPc' = "related"
          /\ UNCHANGED staticResult
  /\ UNCHANGED <<staticPage, params, thrown>>
  /\ BuildStep

\* line 77 (90): the lookup by slug throws.
LookupReject ==
  /\ staticPc = "lookup"
  /\ Catch("lookup")
  /\ UNCHANGED <<staticPage, params, found>>
  /\ BuildStep

\* lines 84-92 (97-105): the related-items fetch returns.
RelatedResolve(related) ==
  /\ staticPc = "related"
  /\ related <= RelatedLimit(staticPage)
  /\ Return(Props(found, related))
  /\ UNCHANGED <<staticPage, params, found, thrown>>
  /\ BuildStep

\* The related-items fetch failing leaves the page without related items.
RelatedReject_EmptyList ==
  /\ staticPc = "related"
  /\ thrown' = "related"
  /\ Return(Props(found, 0))
  /\ UNCHANGED <<staticPage, params, found>>
  /\ BuildStep

\* line 84 (97): the related-items fetch throws.
RelatedReject ==
  /\ staticPc = "related"
  /\ Catch("related")
  /\ UNCHANGED <<staticPage, params, found>>
  /\ BuildStep

InitStatic ==
  /\ NoSearchPage
  /\ NoDetailPage
  /\ published \in SUBSET (Slugs \ {NULL, ""})
  /\ NoStaticBuild

NextStatic ==
  \/ \E page \in DetailPages, slug \in Slugs : Request(page, slug)
  \/ LookupResolve
  \/ LookupReject
  \/ \E related \in 0..RelatedJobsLimit : RelatedResolve(related)
  \/ RelatedReject

SpecStatic == InitStatic /\ [][NextStatic]_vars

----------------------------------------------------------------------------
(* Properties *)

InFlight(kind) == {i \in 1..Len(inflight) : inflight[i].kind = kind}

LoadMoresInFlight == Cardinality(InFlight("loadMore"))
SearchesInFlight == Cardinality(InFlight("search"))

\* This step ran the continuation of request i of inflight.
Handles(i) ==
  /\ i \in 1..Len(inflight)
  /\ inflight' = Remove(inflight, i)
  /\ lastResponse'.kind = inflight[i].kind

\* The state loadMoreJobs may start a request from.
Idle == LoadMoresInFlight = 0 /\ SearchesInFlight = 0 /\ ~searching /\ hasMore

\* C1: at most one loadMore request is in flight, in every reachable state.
OneLoadMoreInFlight == LoadMoresInFlight <= 1

\* A loadMore is in flight for an earlier filter set, and another
\* intersection of the sentinel is about to reach loadMoreJobs.
OneLoadMoreInFlight_Witness ==
  /\ sentinelQueued
  /\ \E i \in InFlight("loadMore") : inflight[i].filters # CurrentFilters

\* C2 (as claimed): the continuation of a loadMore whose filter set is no
\* longer the current one leaves jobs, currentPage and hasMore as they are.
StaleLoadMoreDiscarded ==
  [][\A i \in 1..Len(inflight) :
       (/\ Handles(i)
        /\ inflight[i].kind = "loadMore"
        /\ inflight[i].filters # CurrentFilters)
       => UNCHANGED <<jobs, currentPage, hasMore>>]_vars

\* C3: a loadMore request is started only from a state with no loadMore and
\* no search pending and hasMore true; a trigger in any other state starts
\* none and leaves jobs, currentPage, hasMore, totalJobs and error alone.
LoadMoreOnlyWhenIdle ==
  [][/\ (LoadMoresInFlight' > LoadMoresInFlight) => Idle
     /\ (sentinelQueued /\ ~sentinelQueued' /\ ~Idle)
        => UNCHANGED <<inflight, jobs, currentPage, hasMore, totalJobs, error>>]_vars

\* An intersection is about to reach loadMoreJobs while a search is in
\* progress, or after pagination has ended.
LoadMoreOnlyWhenIdle_Witness ==
  /\ sentinelQueued
  /\ LoadMoresInFlight = 0
  /\ (searching \/ ~hasMore)

\* C4 (as claimed): every change of the filter set, with the taxonomy
\* loaded, away from the last-applied snapshot starts a search for the new
\* filter set, with currentPage 1.
EveryChangeSearches ==
  [][(/\ mounted
      /\ filterData # NULL
      /\ CurrentFilters' # CurrentFilters
      /\ CurrentFilters' # filtersRef)
     => /\ Len(inflight') = Len(inflight) + 1
        /\ inflight'[Len(inflight')].kind = "search"
        /\ inflight'[Len(inflight')].filters = CurrentFilters'
        /\ inflight'[Len(inflight')].page = 1
        /\ currentPage' = 1]_vars

\* C5 (as claimed): while a search is in flight, jobs is empty and
\* currentPage is 1.
EmptyWhileSearching ==
  SearchesInFlight > 0 => (jobs = <<>> /\ currentPage = 1)

\* Two arrays hold the same values, in whatever order.
SameValues(a, b) == Len(a) = Len(b) /\ Elems(a) = Elems(b)

EqualUpToFacetOrder(f, g) ==
  /\ f.keyword = g.keyword
  /\ f.selectedProvince = g.selectedProvince
  /\ f.sortBy = g.sortBy
  /\ \A ft \in FacetNames :
       SameValues(f.sidebarFilters[ft], g.sidebarFilters[ft])

\* C6 (as claimed): a sidebarFilters value that equals the last-applied
\* snapshot up to the order within its facet arrays starts no search.
FacetOrderIgnored ==
  [][(/\ mounted
      /\ sidebarFilters' # sidebarFilters
      /\ EqualUpToFacetOrder(CurrentFilters', filtersRef))
     => UNCHANGED inflight]_vars

\* C7 (as claimed): whenever the province goes from a value to "", the
\* cities facet is empty afterwards.
ClearingProvinceClearsCities ==
  [][(selectedProvince # "" /\ selectedProvince' = "")
     => sidebarFilters'.cities = <<>>]_vars

\* C8 (as claimed): in the state right after a search has failed, the error
\* message is set and jobs is empty.
FailedSearchLeavesListEmpty ==
  (lastResponse.kind = "search" /\ ~lastResponse.ok)
  => (error = ErrorMessage /\ jobs = <<>>)

ShortPageEndsPagination ==
  (/\ lastResponse.kind # "none"
   /\ lastResponse.ok
   /\ (Length(lastResponse.rsp.jobs) < PageSize \/ ~lastResponse.rsp.hasMore))
  => ~hasMore

\* A response with some items, but fewer than a page, has just been applied.
ShortPageEndsPagination_Witness ==
  /\ lastResponse.ok
  /\ Length(lastResponse.rsp.jobs) \in 1..(PageSize - 1)
  /\ ~hasMore

\* C11 (as claimed): once hasMore has been false, no loadMore request is
\* issued before a new search is started.
NoLoadMoreAfterEnd ==
  [][(LoadMoresInFlight' > LoadMoresInFlight) => ~paginationEnded]_vars

IsPrefix(a, b) == Len(a) <= Len(b) /\ SubSeq(b, 1, Len(a)) = a

\* C12: a successful loadMore leaves jobs as the jobs displayed before
\* followed by the response's jobs, in order; and no step other than the
\* start of a search and the arrival of a search's response removes or
\* reorders displayed jobs.
LoadMoreOnlyAppends ==
  [][/\ (lastResponse'.kind = "loadMore" /\ lastResponse'.ok)
        => jobs' = jobs \o lastResponse'.rsp.jobs
     /\ (~SearchStarted /\ ~(lastResponse'.kind = "search" /\ lastResponse'.ok))
        => IsPrefix(jobs, jobs')]_vars

\* The second page of the current filter set has just been appended to its
\* first page.
LoadMoreOnlyAppends_Witness ==
  /\ lastResponse.kind = "loadMore"
  /\ lastResponse.ok
  /\ Len(jobs) > 1
  /\ \A i \in 1..Len(jobs) : jobs[i].f = CurrentFilters /\ jobs[i].p = i

\* C13: a step that starts a search calls getJobs with the filter set of
\* the page, page 1 and PageSize, and leaves a URL whose query has search
\* = keyword and location = province, each only when non-empty, and no
\* other parameter; keyword "backend" with province "DKI Jakarta" gives
\* search=backend&location=DKI+Jakarta.
SearchMirrorsKeywordAndProvince ==
  [][SearchStarted =>
       LET request == inflight'[Len(inflight')]
       IN /\ request.filters = CurrentFilters'
          /\ request.page = 1
          /\ request.size = PageSize
          /\ url'.search = keyword'
          /\ url'.location = selectedProvince'
          /\ url'.category = ""
          /\ (keyword' = "" /\ selectedProvince' = "") => QueryString(url') = ""
          /\ (keyword' = "backend" /\ selectedProvince' = "DKI Jakarta")
             => QueryString(url') = "search=backend&location=DKI+Jakarta"]_vars

\* A search for a keyword, a province, two cities and the sort order
\* "oldest" is in flight, on a page that was opened with a category
\* parameter, and the URL holds the keyword and the province only.
SearchMirrorsKeywordAndProvince_Witness ==
  /\ searching
  /\ keyword = "backend"
  /\ selectedProvince = "DKI Jakarta"
  /\ Len(sidebarFilters.cities) > 1
  /\ sidebarFilters.categories # <<>>
  /\ sortBy = "oldest"
  /\ \E i \in InFlight("search") : inflight[i].filters = CurrentFilters
  /\ QueryString(url) = "search=backend&location=DKI+Jakarta"

\* C14: after clearAllFilters, from any filter set, keyword and province
\* are empty, each of the seven facets is empty and the sort order is
\* "newest".
ClearAllResetsEveryField ==
  [][clearAllFilters =>
       /\ keyword' = ""
       /\ selectedProvince' = ""
       /\ \A ft \in FacetNames : sidebarFilters'[ft] = <<>>
       /\ DOMAIN sidebarFilters' = FacetNames
       /\ sortBy' = "newest"]_vars

\* Every field is at its default while the search for a filter set with a
\* keyword, a province, cities, a category, a job type and the sort order
\* "oldest" is still in flight.
ClearAllResetsEveryField_Witness ==
  /\ keyword = ""
  /\ selectedProvince = ""
  /\ sidebarFilters = EmptySidebar
  /\ sortBy = "newest"
  /\ QueryString(url) = ""
  /\ \E i \in InFlight("search") :
       /\ inflight[i].filters.keyword # ""
       /\ inflight[i].filters.selectedProvince # ""
       /\ inflight[i].filters.sidebarFilters.cities # <<>>
       /\ inflight[i].filters.sidebarFilters.categories # <<>>
       /\ inflight[i].filters.sidebarFilters.jobTypes # <<>>
       /\ inflight[i].filters.sortBy = "oldest"

\* C15 (as claimed): right after a search that matched no job the "no
\* results" block is shown; right after a failed search the error banner
\* is shown and the "no results" block is not.
NoResultsDistinctFromError ==
  /\ (lastResponse.kind = "search" /\ lastResponse.ok
        /\ lastResponse.rsp.jobs = <<>>)
     => NoResultsShown
  /\ (lastResponse.kind = "search" /\ ~lastResponse.ok)
     => (ErrorBannerShown /\ ~NoResultsShown)

\* C16: the step that handles a failed search or a failed loadMore removes
\* the failed request and issues none; a getJobs request is issued only by
\* a step that runs no continuation of a request (the mount effect, a
\* filter control, the search button, a trigger of the sentinel).
NoAutomaticRetry ==
  [][/\ (lastResponse'.kind # "none" /\ ~lastResponse'.ok)
        => \E i \in 1..Len(inflight) : inflight' = Remove(inflight, i)
     /\ (\E i \in 1..Len(inflight') :
           \A j \in 1..Len(inflight) : inflight'[i] # inflight[j])
        => lastResponse'.kind = "none"]_vars

\* A request has just failed and nothing is in flight.
NoAutomaticRetry_Witness ==
  /\ lastResponse.kind # "none"
  /\ ~lastResponse.ok
  /\ inflight = <<>>
  /\ ~searching
  /\ ~loadingMore

\* C17 (as claimed): before the first effects run, the filter set is the
\* one the query of the URL gives (keyword = search, province = location,
\* categories = the category parameter alone when present, the other facets
\* empty, sort order "newest"), and the jobs shown were fetched for it.
SeededFromUrl ==
  ~mounted =>
    /\ keyword = url.search
    /\ selectedProvince = url.location
    /\ sidebarFilters.categories
         = (IF url.category # "" THEN <<url.category>> ELSE <<>>)
    /\ \A ft \in FacetNames \ {"categories"} : sidebarFilters[ft] = <<>>
    /\ sortBy = "newest"
    /\ \A i \in 1..Len(jobs) : jobs[i].f = CurrentFilters

\* C18: once the detail view has run its effects and every pending event
\* has been handled, isBookmarked is the store's state for the job of the
\* page.
IndicatorResyncs ==
  (detailMounted /\ pendingEvents = <<>>)
  => (isBookmarked = IsBookmarkedInStore(job))

\* Toggles have left both jobs bookmarked, every event has been handled and
\* the indicator is on.
IndicatorResyncs_Witness ==
  /\ detailMounted
  /\ pendingEvents = <<>>
  /\ bookmarks = JobIds
  /\ isBookmarked

\* C19: searching is true exactly while a search request is in flight, and
\* loadingMore exactly while a loadMore request is in flight, whether the
\* request ends with a response or with a rejection.
FlagsFollowRequests ==
  /\ searching <=> SearchesInFlight > 0
  /\ loadingMore <=> LoadMoresInFlight > 0

\* A search has just failed while a loadMore is still in flight.
FlagsFollowRequests_Witness ==
  /\ lastResponse.kind = "search"
  /\ ~lastResponse.ok
  /\ ~searching
  /\ loadingMore
  /\ LoadMoresInFlight > 0

\* The facet values a chip can name.
FacetValues == CityNames \cup CategoryNames \cup JobTypeNames

\* removeFilter(ft, v) takes v, and nothing else, out of facet ft.
RemovesOneValue(ft, v) ==
  /\ sidebarFilters' =
       [sidebarFilters EXCEPT
          ![ft] = SelectSeq(sidebarFilters[ft], LAMBDA x : x # v)]
  /\ UNCHANGED <<keyword, selectedProvince, sortBy>>

RemovesKeywordOnly ==
  /\ keyword' = ""
  /\ UNCHANGED <<selectedProvince, sidebarFilters, sortBy>>

\* C20 (as claimed): the removal of an active filter changes only the
\* filter it names: a facet value, the keyword, or the province; a removal
\* for a facet without a value changes nothing.
RemoveChangesOnlyThatFilter ==
  [][/\ \A ft \in FacetNames, v \in FacetValues :
          (v \in Elems(sidebarFilters[ft]) /\ removeFilter(ft, v))
          => RemovesOneValue(ft, v)
     /\ RemoveKeywordChip => RemovesKeywordOnly
     /\ RemoveProvinceChip
          => /\ selectedProvince' = ""
             /\ UNCHANGED <<keyword, sidebarFilters, sortBy>>
     /\ \A ft \in FacetNames : removeFilter(ft, "") => UNCHANGED filterVars]_vars

\* C20 (amended): as above, except that the removal of the province also
\* empties the cities facet, and nothing else.
RemoveChangesOnlyThatFilterOrCities ==
  [][/\ \A ft \in FacetNames, v \in FacetValues :
          (v \in Elems(sidebarFilters[ft]) /\ removeFilter(ft, v))
          => RemovesOneValue(ft, v)
     /\ RemoveKeywordChip => RemovesKeywordOnly
     /\ RemoveProvinceChip
          => /\ selectedProvince' = ""
             /\ sidebarFilters' = [sidebarFilters EXCEPT !.cities = <<>>]
             /\ UNCHANGED <<keyword, sortBy>>
     /\ \A ft \in FacetNames : removeFilter(ft, "") => UNCHANGED filterVars]_vars

\* The province and both cities have gone, and only they, since the search
\* that is still in flight was started.
RemoveChangesOnlyThatFilterOrCities_Witness ==
  /\ selectedProvince = ""
  /\ \E i \in InFlight("search") :
       /\ inflight[i].filters.selectedProvince # ""
       /\ Len(inflight[i].filters.sidebarFilters.cities) > 1
       /\ inflight[i].filters.sidebarFilters.jobTypes # <<>>
       /\ inflight[i].filters.sortBy = "oldest"
       /\ inflight[i].filters.keyword # ""
       /\ CurrentFilters =
            [inflight[i].filters EXCEPT
               !.selectedProvince = "", !.sidebarFilters.cities = <<>>]

\* C21: when a fetch of getServerSideProps has failed, the page is built
\* from props with no jobs, no taxonomy, no search parameters and
\* totalJobs 0: it starts with an empty default filter set, shows the "no
\* results" block and no error, and has nothing in flight.
ServerFailureDegrades ==
  (~mounted /\ filterData = NULL)
  => /\ jobs = <<>>
     /\ totalJobs = 0
     /\ keyword = ""
     /\ selectedProvince = ""
     /\ sidebarFilters = EmptySidebar
     /\ sortBy = "newest"
     /\ error = NULL
     /\ NoResultsShown
     /\ inflight = <<>>

\* The page was requested with a search parameter and the server-side
\* fetch failed.
ServerFailureDegrades_Witness ==
  /\ ~mounted
  /\ filterData = NULL
  /\ url.search # ""
  /\ url.location # ""

\* C22 (as claimed): whenever no request is in flight, the taxonomy is
\* loaded and no failed search is on display, every job displayed was
\* fetched for the current filter set, and the search / location parameters
\* of the URL are the current keyword / province.
SettledShowsCurrentFilters ==
  (inflight = <<>> /\ filterData # NULL /\ error = NULL)
  => /\ \A i \in 1..Len(jobs) : jobs[i].f = CurrentFilters
     /\ url.search = keyword
     /\ url.location = selectedProvince

\* C23: at most one search request is in flight; while searching, a step
\* that calls handleFilterSearch (a filter change, the search button or
\* Enter) issues no request and leaves jobs, currentPage, hasMore,
\* totalJobs, error and the flags alone, and the search button or Enter
\* changes nothing at all.
OneSearchInFlight ==
  /\ [](SearchesInFlight <= 1)
  /\ [][(searching /\ lastResponse'.kind = "none")
         => UNCHANGED <<inflight, jobs, currentPage, hasMore, totalJobs,
                        error, searching, loadingMore>>]_vars
  /\ [][(searching /\ handleMainSearch)
         => UNCHANGED <<filterVars, filtersRef, filterData, resultVars,
                        searching, loadingMore, url, inflight,
                        sentinelQueued, mounted>>]_vars

\* A filter change has arrived while the search for the earlier filter set
\* is in flight.
OneSearchInFlight_Witness ==
  /\ searching
  /\ \E i \in InFlight("search") :
       /\ inflight[i].filters # filtersRef
       /\ filtersRef = CurrentFilters

\* C24 (as claimed): with the filter set never changed, whenever nothing
\* is in flight, no failed search is on display and the display starts
\* with page 1, the pages on display are pages 1, 2, 3, ... in order, each
\* once, and currentPage is the last of them.
PagesContiguous ==
  (inflight = <<>> /\ error = NULL /\ jobs # <<>> /\ Head(jobs).p = 1)
  => /\ \A i \in 1..Len(jobs) : jobs[i].p = i
     /\ currentPage = Len(jobs)

\* C25 (as claimed): the effects of the first render, whatever parameters
\* the URL seeds, issue no request and leave the initialJobs on display.
NoSearchOnLoad ==
  [][~mounted => UNCHANGED <<inflight, jobs, searching, url>>]_vars

\* C26 (as claimed): while the server-rendered first page is on display
\* and holds as many jobs as totalJobs says there are, no step issues a
\* loadMore request.
NoLoadMoreWhenComplete ==
  [][(serverRendered /\ Length(jobs) = totalJobs)
     => LoadMoresInFlight' <= LoadMoresInFlight]_vars

\* C27: a step that starts a search leaves error null; the arrival of a
\* search's response leaves it null and the failure of a search sets the
\* message; the continuation of a loadMore (response, empty response or
\* failure) leaves error as it is; no other step changes error.
ErrorOnlyFromFailedSearch ==
  /\ [][SearchStarted => error' = NULL]_vars
  /\ [][(lastResponse'.kind = "search" /\ lastResponse'.ok)
         => error' = NULL]_vars
  /\ [][(lastResponse'.kind = "search" /\ ~lastResponse'.ok)
         => error' = ErrorMessage]_vars
  /\ [][lastResponse'.kind = "loadMore" => UNCHANGED error]_vars
  /\ [][error' # error
         => (SearchStarted \/ lastResponse'.kind = "search")]_vars

\* A loadMore has just been answered while the message of a failed search
\* is on display.
ErrorOnlyFromFailedSearch_Witness ==
  /\ lastResponse.kind = "loadMore"
  /\ lastResponse.ok
  /\ lastResponse.rsp.jobs # <<>>
  /\ error = ErrorMessage

\* C28: totalJobs takes the total of the response when a search is
\* answered, and no other step changes it: not the start of a search, not
\* a failed search, not the continuation of a loadMore (response, empty
\* response or failure).
TotalOnlyFromSearchResponse ==
  /\ [][(lastResponse'.kind = "search" /\ lastResponse'.ok)
         => totalJobs' = lastResponse'.rsp.totalJobs]_vars
  /\ [][~(lastResponse'.kind = "search" /\ lastResponse'.ok)
         => UNCHANGED totalJobs]_vars

\* A loadMore has just been answered with jobs and a total other than the
\* displayed one.
TotalOnlyFromSearchResponse_Witness ==
  /\ lastResponse.kind = "loadMore"
  /\ lastResponse.ok
  /\ lastResponse.rsp.jobs # <<>>
  /\ lastResponse.rsp.totalJobs # totalJobs

\* C29: while filterData is null no step advances the last-applied
\* snapshot, a step that changes the filter set starts no search, and the
\* only step that starts a search is the explicit submit.
NoSearchWithoutFilterData ==
  /\ [][filterData = NULL => UNCHANGED filtersRef]_vars
  /\ [][(filterData = NULL /\ CurrentFilters' # CurrentFilters)
         => ~SearchStarted]_vars
  /\ [][(filterData = NULL /\ SearchStarted) => handleMainSearch]_vars

\* Without filterData the filter set has been changed and then submitted:
\* the search is in flight and the snapshot is still the initial one.
NoSearchWithoutFilterData_Witness ==
  /\ filterData = NULL
  /\ searching
  /\ InFlight("search") # {}
  /\ CurrentFilters # filtersRef

\* C30: a build of a detail page that has ended returned notFound when the
\* slug was missing, when the lookup by slug returned nothing, or when a
\* call of the build (the related-items fetch included) threw; whenever it
\* returned props, the job or article in them is the one the lookup found
\* for that slug.
StaticNotFoundOnFailure ==
  staticPc = "done"
  => /\ (params.slug \in {NULL, ""} \/ found = NoItem \/ thrown # "none")
        => staticResult = NotFound
     /\ staticResult # NotFound
        => /\ staticResult.kind = "props"
           /\ staticResult.props.item # NoItem
           /\ staticResult.props.item = found
           /\ staticResult.props.item.slug = params.slug
           /\ staticResult.props.item.type = staticPage

\* The related-items fetch threw after the lookup had found the item.
StaticNotFoundOnFailure_Witness ==
  /\ staticPc = "done"
  /\ thrown = "related"
  /\ found # NoItem
  /\ staticResult = NotFound

====
